---------------------------- MODULE Spec2Model ----------------------------
(***************************************************************************)
(* Model of adafruit_aws_iot.MQTT_CLIENT, the AWS IoT wrapper around a     *)
(* MiniMQTT client (src/adafruit_aws_iot.py).                              *)
(*                                                                         *)
(* The wrapped MiniMQTT client is an external collaborator.  It is         *)
(* modelled as an environment: every call the wrapper makes on it returns  *)
(* normally, raises MMQTTException or raises another exception (OSError),  *)
(* and the network-driving calls (connect, reconnect, disconnect, loop,    *)
(* loop_forever) may dispatch one event to the handler registered in the   *)
(* matching slot before they end.  Events may also be dispatched between   *)
(* two wrapper calls (the application pumping the client itself).  The     *)
(* publish and subscribe calls are the last statement of the methods that  *)
(* make them, so an event dispatched inside one of them is the event       *)
(* action taken right after the method.                                    *)
(*                                                                         *)
(* Strings whose characters the code inspects (topics, client ids) are     *)
(* sequences of one-character strings.  Python assert statements are       *)
(* modelled as raising AssertionError.  User callbacks are opaque: their   *)
(* invocation is recorded and they return normally.                        *)
(***************************************************************************)
EXTENDS Integers, Sequences, FiniteSets, TLC

VARIABLES
    constructed,        \* an MQTT_CLIENT instance exists (__init__ returned)
    cid,                \* self.cid
    shadow_topic,       \* self.shadow_topic
    keep_alive,         \* self.keep_alive
    client_slots,       \* self.client.on_<event>: the handler registered per event
    on_connect,         \* self.on_connect
    on_disconnect,      \* self.on_disconnect
    on_message,         \* self.on_message
    on_subscribe,       \* self.on_subscribe
    on_unsubscribe,     \* self.on_unsubscribe
    connected_to_aws,   \* self.connected_to_aws (read through is_connected)
    op,                 \* the operation that made the last step
    args,               \* its arguments
    result,             \* "ok" or the exception it ended with
    calls,              \* the calls it made on the MiniMQTT client, in order
    fired,              \* the events the client dispatched during it, in order
    invoked             \* the user callbacks invoked during it, in order

cbs == <<on_connect, on_disconnect, on_message, on_subscribe, on_unsubscribe>>
obj == <<constructed, cid, shadow_topic, keep_alive, client_slots>>
hist == <<op, args, result, calls, fired, invoked>>
vars == <<obj, cbs, connected_to_aws, hist>>

-----------------------------------------------------------------------------
(* Program constants *)

TOPIC_LEN_LIMIT == 256
TOPIC_SPLIT_LIMIT == 9
QOS_LIMIT == 2
KEEP_ALIVE_MIN == 30
KEEP_ALIVE_MAX == 1200

None == "None"
SLASH == "/"
DOLLAR == "$"

\* "$aws/things/{}/shadow"
SHADOW_TEMPLATE ==
    <<"$","a","w","s","/","t","h","i","n","g","s","/","{","}",
      "/","s","h","a","d","o","w">>
SUFFIX_GET_ALL == <<"/","g","e","t","/","#">>
SUFFIX_UPDATE_ALL == <<"/","u","p","d","a","t","e","/","#">>
SUFFIX_UPDATE == <<"/","u","p","d","a","t","e">>
SUFFIX_GET == <<"/","g","e","t">>
SUFFIX_DELETE == <<"/","d","e","l","e","t","e">>

-----------------------------------------------------------------------------
(* Bounds of the explored inputs *)

MaxTopicLen == 256      \* longest topic tried
MaxSlashes == 9         \* most '/' separators tried in a topic
MaxQos == 2             \* largest QoS tried
KeepAliveMargin == 1    \* how far outside [30, 1200] keep_alive is tried

EventKinds == {"connect", "disconnect", "message", "subscribe", "unsubscribe"}
Slots == {"on_connect", "on_disconnect", "on_message", "on_subscribe",
          "on_unsubscribe"}
UserFns == {"f"}
\* How a call on the client ends.  Only connect, disconnect and reconnect tell
\* MMQTTException from other exceptions; elsewhere any exception propagates.
Outcomes == {"ok", "MMQTTException", "OSError"}
PlainOutcomes == {"ok", "MMQTTException"}
QosValues == 0..MaxQos
KeepAlives == (KEEP_ALIVE_MIN - KeepAliveMargin)..KEEP_ALIVE_MIN
                \cup KEEP_ALIVE_MAX..(KEEP_ALIVE_MAX + KeepAliveMargin)

\* client ids: "", "$dev", "dev", "mydevice"
ClientIds == { <<>>,
               <<"$","d","e","v">>,
               <<"d","e","v">>,
               <<"m","y","d","e","v","i","c","e">> }

\* A topic of n characters whose first k even positions hold '/'.
MkTopic(n, k) ==
    [i \in 1..n |-> IF i % 2 = 0 /\ i <= 2 * k THEN SLASH ELSE "a"]

ShortLen == 2 * MaxSlashes + 1
ProbeTopics ==
    { MkTopic(n, k) : n \in {ShortLen} \cup (TOPIC_LEN_LIMIT - 1)..MaxTopicLen,
                      k \in (TOPIC_SPLIT_LIMIT - 3)..MaxSlashes }
AppTopics == { MkTopic(ShortLen, 1), MkTopic(ShortLen, MaxSlashes) }

StrPayload(s) == [kind |-> "str", i |-> 0, s |-> s]
IntPayload(i) == [kind |-> "int", i |-> i, s |-> ""]
FloatPayload(s) == [kind |-> "float", i |-> 0, s |-> s]
Documents == { StrPayload("{\"state\": {}}") }
AppPayloads == Documents \cup { IntPayload(42) }
ProbePayloads == AppPayloads \cup { FloatPayload("1.5") }

\* The events the client dispatches, with the arguments it passes.
Events ==
    { [kind |-> "connect",     args |-> <<"client", "userdata", "flag", "ret_code">>],
      [kind |-> "disconnect",  args |-> <<"client", "userdata", "flag", "ret_code">>],
      [kind |-> "message",     args |-> <<"client", "topic", "payload">>],
      [kind |-> "subscribe",   args |-> <<"client", "user_data", "topic", "qos">>],
      [kind |-> "unsubscribe", args |-> <<"client", "user_data", "topic", "pid">>] }
\* What the client dispatches during one call: nothing or one event.
Dispatches == { <<>> } \cup { <<e>> : e \in Events }

-----------------------------------------------------------------------------
(* Pure helpers *)

Least(S) == CHOOSE i \in S : \A j \in S : i <= j

\* str.split(sep)
RECURSIVE split(_, _)
split(s, sep) ==
    LET hits == { i \in 1..Len(s) : s[i] = sep } IN
    IF hits = {} THEN << s >>
    ELSE LET i == Least(hits) IN
         << SubSeq(s, 1, i - 1) >> \o split(SubSeq(s, i + 1, Len(s)), sep)

\* template.format(arg) for a template with one "{}" field
format(template, arg) ==
    LET at == { i \in 1..(Len(template) - 1) :
                    template[i] = "{" /\ template[i + 1] = "}" } IN
    IF at = {} THEN template
    ELSE LET i == Least(at) IN
         SubSeq(template, 1, i - 1) \o arg \o SubSeq(template, i + 2, Len(template))

\* json.dumps({key: value}) for string key and value
json_dumps(key, value) == "{\"" \o key \o "\": \"" \o value \o "\"}"

\* A call on the MiniMQTT client and how it ended; absent arguments are empty
\* sequences.
Call(fn, outcome) ==
    [fn |-> fn, topic |-> <<>>, payload |-> <<>>, qos |-> <<>>, clean |-> <<>>,
     outcome |-> outcome]
SubscribeCall(topic, qos, outcome) ==
    [Call("subscribe", outcome) EXCEPT !.topic = topic, !.qos = <<qos>>]
PublishCall(topic, payload, qosargs, outcome) ==
    [Call("publish", outcome) EXCEPT !.topic = topic, !.payload = <<payload>>,
                                     !.qos = qosargs]


-----------------------------------------------------------------------------
(* Validation *)

\* Fault: the '$' prefix is not checked.
client_id_ok_unchecked(id) == Len(id) > 0

\* __init__: self.cid[0] != "$"; an empty id makes cid[0] raise, caught alike
client_id_ok(id) == Len(id) > 0 /\ id[1] # DOLLAR

\* __init__: 30 <= keep_alive <= 1200
keep_alive_ok(ka) == KEEP_ALIVE_MIN <= ka /\ ka <= KEEP_ALIVE_MAX

\* Fault: the QoS assert is off by one.
qos_ok_off_by_one(qos) == qos <= QOS_LIMIT

\* subscribe, publish: assert qos < 2
qos_ok(qos) == qos < QOS_LIMIT

\* validate_topic: both asserts pass
validate_topic_ok(topic) ==
    /\ Len(topic) < TOPIC_LEN_LIMIT
    /\ Len(split(topic, SLASH)) <= TOPIC_SPLIT_LIMIT

\* Fault: the shadow topic is built from a template without its suffix.
shadow_topic_of_no_suffix(id) ==
    format(SubSeq(SHADOW_TEMPLATE, 1, Len(SHADOW_TEMPLATE) - 7), id)

\* __init__: self.shadow_topic
shadow_topic_of(id) == format(SHADOW_TEMPLATE, id)

\* publish: if isinstance(payload, int or float): payload = str(payload)
\* (the expression "int or float" evaluates to int)
int_or_float == "int"
publish_payload(payload) ==
    IF payload.kind = int_or_float THEN StrPayload(ToString(payload.i))
    ELSE payload

\* connect, disconnect, reconnect: except MMQTTException -> raise AWS_IOT_ERROR
translate(outcome) ==
    IF outcome = "MMQTTException" THEN "AWS_IOT_ERROR" ELSE outcome

-----------------------------------------------------------------------------
(* MiniMQTT callback handlers.  Each yields the connection flag it leaves   *)
(* and the user callbacks it invokes, given the flag it finds.              *)

Invocation(slot, a) == [slot |-> slot, args |-> <<"self">> \o Tail(a)]

_on_connect_mqtt(a, flag) ==
    [connected |-> TRUE,
     invoked |-> IF on_connect # None THEN << Invocation("on_connect", a) >>
                 ELSE <<>>]

_on_disconnect_mqtt(a, flag) ==
    [connected |-> FALSE,
     invoked |-> IF on_connect # None THEN << Invocation("on_connect", a) >>
                 ELSE <<>>]

_on_message_mqtt(a, flag) ==
    [connected |-> flag,
     invoked |-> IF on_message # None THEN << Invocation("on_message", a) >>
                 ELSE <<>>]

_on_subscribe_mqtt(a, flag) ==
    [connected |-> flag,
     invoked |-> IF on_subscribe # None THEN << Invocation("on_subscribe", a) >>
                 ELSE <<>>]

_on_unsubscribe_mqtt(a, flag) ==
    [connected |-> flag,
     invoked |-> IF on_unsubscribe # None THEN << Invocation("on_unsubscribe", a) >>
                 ELSE <<>>]

\* __init__: self.client.on_<event> = self._on_<event>_mqtt
registered_handlers ==
    [k \in EventKinds |->
        CASE k = "connect"     -> "_on_connect_mqtt"
          [] k = "disconnect"  -> "_on_disconnect_mqtt"
          [] k = "message"     -> "_on_message_mqtt"
          [] k = "subscribe"   -> "_on_subscribe_mqtt"
          [] k = "unsubscribe" -> "_on_unsubscribe_mqtt"]

\* The client dispatches event e: the handler in e's slot runs.
Handle(e, flag) ==
    LET h == client_slots[e.kind] IN
    CASE h = "_on_connect_mqtt"     -> _on_connect_mqtt(e.args, flag)
      [] h = "_on_disconnect_mqtt"  -> _on_disconnect_mqtt(e.args, flag)
      [] h = "_on_message_mqtt"     -> _on_message_mqtt(e.args, flag)
      [] h = "_on_subscribe_mqtt"   -> _on_subscribe_mqtt(e.args, flag)
      [] h = "_on_unsubscribe_mqtt" -> _on_unsubscribe_mqtt(e.args, flag)
      [] OTHER -> [connected |-> flag, invoked |-> <<>>]

\* The events of evs dispatched in order, starting from flag.
RECURSIVE Dispatch(_, _)
Dispatch(evs, flag) ==
    IF evs = <<>> THEN [connected |-> flag, invoked |-> <<>>]
    ELSE LET first == Handle(Head(evs), flag)
             rest == Dispatch(Tail(evs), first.connected)
         IN [connected |-> rest.connected,
             invoked |-> first.invoked \o rest.invoked]


-----------------------------------------------------------------------------
(* State *)

NoCallbacks ==
    /\ on_connect = None
    /\ on_disconnect = None
    /\ on_message = None
    /\ on_subscribe = None
    /\ on_unsubscribe = None

\* No instance yet.
Init ==
    /\ constructed = FALSE
    /\ cid = <<>>
    /\ shadow_topic = <<>>
    /\ keep_alive = 0
    /\ client_slots = [k \in EventKinds |-> None]
    /\ NoCallbacks
    /\ connected_to_aws = FALSE
    /\ op = "none"
    /\ args = <<>>
    /\ result = "ok"
    /\ calls = <<>>
    /\ fired = <<>>
    /\ invoked = <<>>

Log(o, a, r, c, f, i) ==
    /\ op' = o
    /\ args' = a
    /\ result' = r
    /\ calls' = c
    /\ fired' = f
    /\ invoked' = i

\* Fault: disconnect forgets one callback.
reset_slots_but_one == Slots \ {"on_unsubscribe"}

\* disconnect: the user callbacks it resets to None
reset_slots == Slots

ResetCallbacks ==
    /\ on_connect' = IF "on_connect" \in reset_slots THEN None ELSE on_connect
    /\ on_disconnect' = IF "on_disconnect" \in reset_slots THEN None ELSE on_disconnect
    /\ on_message' = IF "on_message" \in reset_slots THEN None ELSE on_message
    /\ on_subscribe' = IF "on_subscribe" \in reset_slots THEN None ELSE on_subscribe
    /\ on_unsubscribe' = IF "on_unsubscribe" \in reset_slots THEN None ELSE on_unsubscribe

-----------------------------------------------------------------------------
(* Operations *)

\* How MQTT_CLIENT(mmqttclient, keep_alive) ends: the type check, the client
\* id check, then the keep_alive assert.
init_result(type_is_mqtt, id, ka) ==
    IF ~type_is_mqtt THEN "TypeError"
    ELSE IF ~client_id_ok(id) THEN "TypeError"
    ELSE IF ~keep_alive_ok(ka) THEN "AssertionError"
    ELSE "ok"

__init__(type_is_mqtt, id, ka) ==
    /\ ~constructed
    /\ Log("__init__", [type_is_mqtt |-> type_is_mqtt, client_id |-> id,
                        keep_alive |-> ka],
           init_result(type_is_mqtt, id, ka), <<>>, <<>>, <<>>)
    /\ IF init_result(type_is_mqtt, id, ka) = "ok"
       THEN /\ constructed' = TRUE
            /\ cid' = id
            /\ shadow_topic' = shadow_topic_of(id)
            /\ keep_alive' = ka
            /\ on_connect' = None
            /\ on_disconnect' = None
            /\ on_message' = None
            /\ on_subscribe' = None
            /\ on_unsubscribe' = None
            /\ client_slots' = registered_handlers
            /\ connected_to_aws' = FALSE
       ELSE UNCHANGED <<obj, cbs, connected_to_aws>>

\* The application assigns one of the five callback attributes.
assign_callback(slot, fn) ==
    /\ constructed
    /\ on_connect' = IF slot = "on_connect" THEN fn ELSE on_connect
    /\ on_disconnect' = IF slot = "on_disconnect" THEN fn ELSE on_disconnect
    /\ on_message' = IF slot = "on_message" THEN fn ELSE on_message
    /\ on_subscribe' = IF slot = "on_subscribe" THEN fn ELSE on_subscribe
    /\ on_unsubscribe' = IF slot = "on_unsubscribe" THEN fn ELSE on_unsubscribe
    /\ Log("assign_callback", [slot |-> slot, fn |-> fn], "ok", <<>>, <<>>, <<>>)
    /\ UNCHANGED <<obj, connected_to_aws>>

\* The client dispatches e outside any wrapper call.
event(e) ==
    /\ constructed
    /\ LET r == Handle(e, connected_to_aws) IN
       /\ connected_to_aws' = r.connected
       /\ Log("event", e, "ok", <<>>, <<e>>, r.invoked)
    /\ UNCHANGED <<obj, cbs>>

\* Fault: connect sets the flag whatever the client's connect did.
connect_flag_always(outcome, flag) == TRUE

\* connect: the flag after the try statement
connect_flag(outcome, flag) == IF outcome = "ok" THEN TRUE ELSE flag

connect(clean_session, outcome, evs) ==
    /\ constructed
    /\ LET r == Dispatch(evs, connected_to_aws) IN
       /\ connected_to_aws' = connect_flag(outcome, r.connected)
       /\ Log("connect", [clean_session |-> clean_session], translate(outcome),
              << [Call("connect", outcome) EXCEPT !.clean = <<clean_session>>] >>,
              evs, r.invoked)
    /\ UNCHANGED <<obj, cbs>>

\* disconnect() and __exit__(), which only calls it
disconnect_as(name, outcome, evs) ==
    /\ constructed
    /\ LET r == Dispatch(evs, connected_to_aws) IN
       IF outcome = "ok"
       THEN /\ connected_to_aws' = FALSE
            /\ ResetCallbacks
            /\ Log(name, <<>>, "ok",
                   << Call("disconnect", outcome), Call("deinit", "ok") >>,
                   evs, r.invoked)
       ELSE /\ connected_to_aws' = r.connected
            /\ UNCHANGED cbs
            /\ Log(name, <<>>, translate(outcome),
                   << Call("disconnect", outcome) >>, evs, r.invoked)
    /\ UNCHANGED obj

disconnect(outcome, evs) == disconnect_as("disconnect", outcome, evs)

__exit__(outcome, evs) == disconnect_as("__exit__", outcome, evs)

\* Fault: reconnect sets the flag when the client's reconnect succeeds.
reconnect_flag_set(outcome, flag) == IF outcome = "ok" THEN TRUE ELSE flag

\* reconnect: it assigns nothing, the flag stays as the handlers left it
reconnect_flag(outcome, flag) == flag

reconnect(outcome, evs) ==
    /\ constructed
    /\ LET r == Dispatch(evs, connected_to_aws) IN
       /\ connected_to_aws' = reconnect_flag(outcome, r.connected)
       /\ Log("reconnect", <<>>, translate(outcome),
              << Call("reconnect", outcome) >>, evs, r.invoked)
    /\ UNCHANGED <<obj, cbs>>

\* Fault: the pump does not test the flag.
pump_guard_missing(flag) == TRUE

\* loop, loop_forever: if self.connected_to_aws
pump_guard(flag) == flag

pump(name) ==
    /\ constructed
    /\ IF pump_guard(connected_to_aws)
       THEN \E outcome \in PlainOutcomes, evs \in Dispatches :
              LET r == Dispatch(evs, connected_to_aws) IN
              /\ connected_to_aws' = r.connected
              /\ Log(name, <<>>, outcome, << Call(name, outcome) >>, evs, r.invoked)
       ELSE /\ Log(name, <<>>, "ok", <<>>, <<>>, <<>>)
            /\ UNCHANGED connected_to_aws
    /\ UNCHANGED <<obj, cbs>>

loop == pump("loop")

loop_forever == pump("loop_forever")

validate_topic(topic) ==
    /\ Log("validate_topic", [topic |-> topic],
           IF validate_topic_ok(topic) THEN "ok" ELSE "AssertionError",
           <<>>, <<>>, <<>>)
    /\ UNCHANGED <<obj, cbs, connected_to_aws>>

subscribe(topic, qos) ==
    /\ constructed
    /\ IF qos_ok(qos) /\ validate_topic_ok(topic)
       THEN \E outcome \in PlainOutcomes :
              Log("subscribe", [topic |-> topic, qos |-> qos], outcome,
                  << SubscribeCall(topic, qos, outcome) >>, <<>>, <<>>)
       ELSE Log("subscribe", [topic |-> topic, qos |-> qos], "AssertionError",
                <<>>, <<>>, <<>>)
    /\ UNCHANGED <<obj, cbs, connected_to_aws>>

publish(topic, payload, qos) ==
    /\ constructed
    /\ IF qos_ok(qos) /\ validate_topic_ok(topic)
       THEN \E outcome \in PlainOutcomes :
              Log("publish", [topic |-> topic, payload |-> payload, qos |-> qos],
                  outcome,
                  << PublishCall(topic, publish_payload(payload), <<qos>>, outcome) >>,
                  <<>>, <<>>)
       ELSE Log("publish", [topic |-> topic, payload |-> payload, qos |-> qos],
                "AssertionError", <<>>, <<>>, <<>>)
    /\ UNCHANGED <<obj, cbs, connected_to_aws>>

shadow_get_subscribe(qos) ==
    /\ constructed
    /\ \E outcome \in PlainOutcomes :
         Log("shadow_get_subscribe", [qos |-> qos], outcome,
             << SubscribeCall(shadow_topic \o SUFFIX_GET_ALL, qos, outcome) >>,
             <<>>, <<>>)
    /\ UNCHANGED <<obj, cbs, connected_to_aws>>

shadow_subscribe(qos) ==
    /\ constructed
    /\ \E outcome \in PlainOutcomes :
         Log("shadow_subscribe", [qos |-> qos], outcome,
             << SubscribeCall(shadow_topic \o SUFFIX_UPDATE_ALL, qos, outcome) >>,
             <<>>, <<>>)
    /\ UNCHANGED <<obj, cbs, connected_to_aws>>

shadow_update(document) ==
    /\ constructed
    /\ \E outcome \in PlainOutcomes :
         Log("shadow_update", [document |-> document], outcome,
             << PublishCall(shadow_topic \o SUFFIX_UPDATE, document, <<>>, outcome) >>,
             <<>>, <<>>)
    /\ UNCHANGED <<obj, cbs, connected_to_aws>>

shadow_get ==
    /\ constructed
    /\ \E outcome \in PlainOutcomes :
         Log("shadow_get", <<>>, outcome,
             << PublishCall(shadow_topic \o SUFFIX_GET,
                            StrPayload(json_dumps("message", "ignore")),
                            <<>>, outcome) >>,
             <<>>, <<>>)
    /\ UNCHANGED <<obj, cbs, connected_to_aws>>

shadow_delete ==
    /\ constructed
    /\ \E outcome \in PlainOutcomes :
         Log("shadow_delete", <<>>, outcome,
             << PublishCall(shadow_topic \o SUFFIX_DELETE,
                            StrPayload(json_dumps("message", "delete")),
                            <<>>, outcome) >>,
             <<>>, <<>>)
    /\ UNCHANGED <<obj, cbs, connected_to_aws>>

-----------------------------------------------------------------------------
(* Specifications *)

Next ==
    \/ \E t \in BOOLEAN, id \in ClientIds, ka \in KeepAlives : __init__(t, id, ka)
    \/ \E slot \in Slots, fn \in UserFns \cup {None} : assign_callback(slot, fn)
    \/ \E e \in Events : event(e)
    \/ \E cs \in BOOLEAN, outcome \in Outcomes, evs \in Dispatches :
         connect(cs, outcome, evs)
    \/ \E outcome \in Outcomes, evs \in Dispatches : disconnect(outcome, evs)
    \/ \E outcome \in Outcomes, evs \in Dispatches : __exit__(outcome, evs)
    \/ \E outcome \in Outcomes, evs \in Dispatches : reconnect(outcome, evs)
    \/ loop
    \/ loop_forever
    \/ \E topic \in AppTopics : validate_topic(topic)
    \/ \E topic \in AppTopics, qos \in QosValues : subscribe(topic, qos)
    \/ \E topic \in AppTopics, payload \in AppPayloads, qos \in QosValues :
         publish(topic, payload, qos)
    \/ \E qos \in QosValues : shadow_get_subscribe(qos)
    \/ \E qos \in QosValues : shadow_subscribe(qos)
    \/ \E document \in Documents : shadow_update(document)
    \/ shadow_get
    \/ shadow_delete

Spec == Init /\ [][Next]_vars

\* Topic validation: a freshly constructed instance, and validate_topic,
\* subscribe and publish over the probe topics and payloads.
InitTopic ==
    \E id \in ClientIds, ka \in {KEEP_ALIVE_MIN} :
        /\ init_result(TRUE, id, ka) = "ok"
        /\ constructed = TRUE
        /\ cid = id
        /\ shadow_topic = shadow_topic_of(id)
        /\ keep_alive = ka
        /\ client_slots = registered_handlers
        /\ NoCallbacks
        /\ connected_to_aws = FALSE
        /\ op = "__init__"
        /\ args = [type_is_mqtt |-> TRUE, client_id |-> id, keep_alive |-> ka]
        /\ result = "ok"
        /\ calls = <<>>
        /\ fired = <<>>
        /\ invoked = <<>>

NextTopic ==
    \/ \E topic \in ProbeTopics : validate_topic(topic)
    \/ \E topic \in ProbeTopics, qos \in QosValues : subscribe(topic, qos)
    \/ \E topic \in ProbeTopics, payload \in ProbePayloads, qos \in QosValues :
         publish(topic, payload, qos)

SpecTopic == InitTopic /\ [][NextTopic]_vars


-----------------------------------------------------------------------------
(* Properties *)

Slashes(topic) == Cardinality({ i \in DOMAIN topic : topic[i] = "/" })
IsFlagEvent(e) == e.kind \in {"connect", "disconnect"}
FlagEvents(evs) == { i \in DOMAIN evs : IsFlagEvent(evs[i]) }
LifecycleOps == {"connect", "disconnect", "__exit__", "reconnect"}
CallbackOf(slot) ==
    CASE slot = "on_connect"     -> on_connect
      [] slot = "on_disconnect"  -> on_disconnect
      [] slot = "on_message"     -> on_message
      [] slot = "on_subscribe"   -> on_subscribe
      [] slot = "on_unsubscribe" -> on_unsubscribe

\* C1: once disconnect() (or __exit__, which calls it) has returned normally,
\* the five user callbacks are unset and the connection flag is false.
C1_DisconnectResets ==
    (op \in {"disconnect", "__exit__"} /\ result = "ok")
        => (NoCallbacks /\ ~connected_to_aws)

\* A successful disconnect during which the client dispatched a connect event
\* that reached a user callback: the flag was true and on_connect set inside
\* the call.
C1_Witness ==
    /\ op = "disconnect"
    /\ result = "ok"
    /\ Len(fired) = 1
    /\ fired[1].kind = "connect"
    /\ Len(invoked) = 1

\* C2: loop() or loop_forever() called while the flag is false makes no call on
\* the client and changes nothing; the client's loop and loop_forever are
\* called only by the pump of that name, called while the flag is true.
C2_PumpGuarded ==
    [][ /\ (op' \in {"loop", "loop_forever"} /\ ~connected_to_aws)
            => /\ calls' = <<>>
               /\ fired' = <<>>
               /\ invoked' = <<>>
               /\ result' = "ok"
               /\ UNCHANGED <<obj, cbs, connected_to_aws>>
        /\ \A i \in DOMAIN calls' :
              calls'[i].fn \in {"loop", "loop_forever"}
                  => (op' = calls'[i].fn /\ connected_to_aws)
      ]_vars

\* loop() was called on an instance that is not connected and has a message
\* callback.
C2_Witness ==
    /\ op = "loop"
    /\ constructed
    /\ ~connected_to_aws
    /\ on_message # None
    /\ calls = <<>>

\* C3: publish and subscribe with QoS >= 2 end with an error, make no call on
\* the client and leave the flag and the user callbacks as they were.
C3_QosRejected ==
    [][ (op' \in {"publish", "subscribe"} /\ args'.qos >= 2)
            => /\ result' # "ok"
               /\ calls' = <<>>
               /\ UNCHANGED <<cbs, connected_to_aws>>
      ]_vars

\* publish with QoS 2 on a topic that passes validation, on a connected
\* instance with a callback set, was refused.
C3_Witness ==
    /\ op = "publish"
    /\ args.qos >= 2
    /\ Len(args.topic) < 256
    /\ Slashes(args.topic) <= 7
    /\ connected_to_aws
    /\ on_message # None
    /\ result = "AssertionError"


\* C4: validate_topic fails for every topic of 256 characters or more and for
\* every topic with more than 7 '/' separators, and succeeds for the others;
\* publish and subscribe with QoS < 2 reach the client exactly for the topics
\* it accepts.
C4_TopicLimits ==
    LET accepted(t) == Len(t) < 256 /\ Slashes(t) <= 7 IN
    /\ op = "validate_topic" => (result = "ok" <=> accepted(args.topic))
    /\ (op \in {"publish", "subscribe"} /\ args.qos < 2)
          => (calls # <<>> <=> accepted(args.topic))

\* C5: construction fails for a client id that starts with '$' and for a
\* keep_alive outside [30, 1200]; an instance that was constructed has a client
\* id not starting with '$' and 30 <= keep_alive <= 1200, and right after
\* construction its flag is false and its callbacks are unset.
C5_ConstructionValidated ==
    /\ (/\ op = "__init__"
        /\ \/ (Len(args.client_id) > 0 /\ args.client_id[1] = "$")
           \/ args.keep_alive < 30
           \/ args.keep_alive > 1200)
          => (result # "ok" /\ ~constructed)
    /\ (op = "__init__" /\ result = "ok")
          => /\ constructed
             /\ cid = args.client_id
             /\ keep_alive = args.keep_alive
             /\ ~connected_to_aws
             /\ NoCallbacks
    /\ constructed
          => /\ Len(cid) > 0
             /\ cid[1] # "$"
             /\ 30 <= keep_alive
             /\ keep_alive <= 1200

\* Construction with a MiniMQTT client and a valid keep_alive was refused
\* because the client id starts with '$'.
C5_Witness ==
    /\ op = "__init__"
    /\ args.type_is_mqtt
    /\ Len(args.client_id) > 0
    /\ args.client_id[1] = "$"
    /\ 30 <= args.keep_alive
    /\ args.keep_alive <= 1200
    /\ result = "TypeError"
    /\ ~constructed

\* C6: when the client dispatches an event, the flag becomes true for connect,
\* false for disconnect and stays for the others, and the user callback of
\* that same event is invoked with the event's arguments if it is set; if it
\* is unset nothing is invoked.
C6_EventDispatch ==
    [][ (op' = "event")
            => LET e == fired'[1]
                   slot == "on_" \o e.kind
               IN /\ connected_to_aws' =
                        CASE e.kind = "connect" -> TRUE
                          [] e.kind = "disconnect" -> FALSE
                          [] OTHER -> connected_to_aws
                  /\ invoked' =
                        IF CallbackOf(slot) # None
                        THEN << [slot |-> slot, args |-> <<"self">> \o Tail(e.args)] >>
                        ELSE <<>>
      ]_vars

C9_NoQos2 ==
    \A i \in DOMAIN calls :
        calls[i].fn \in {"subscribe", "publish"}
            => \A j \in DOMAIN calls[i].qos : calls[i].qos[j] < 2

=============================================================================
